---- MODULE Spec2Model ----
(***************************************************************************)
(* A model of filesystem/main.py: the format-dispatched reader             *)
(* read_text_from_file, the writer create_file, and the batch copy/move    *)
(* tools with the single-file tools they call.                             *)
(*                                                                         *)
(* Strings are sequences of one-character strings; control characters and  *)
(* the CSV specials are written by name: "LF", "CR", "TAB", "COMMA",       *)
(* "QUOTE".  A path is such a sequence too, so that os.path.splitext,      *)
(* os.path.basename and os.path.join are computed as the library computes  *)
(* them.                                                                   *)
(***************************************************************************)
EXTENDS Integers, Sequences, FiniteSets, TLC

\* ------------------------------------------------------------------ bounds

\* Longest file content (in characters, or in YAML mapping entries).
MaxLen == 3
\* Number of reader calls that may be in flight at once.
NCalls == 2
\* Longest src_paths list handed to a batch tool.
MaxBatch == 2
\* Number of distinct YAML keys (key k sorts before key k+1).
MaxKey == 2

\* ------------------------------------------------------- sequence helpers

RECURSIVE SeqsUpTo(_, _)
\* Every sequence over S of length at most n.
SeqsUpTo(S, n) ==
    IF n = 0 THEN {<<>>}
    ELSE LET shorter == SeqsUpTo(S, n - 1)
         IN  shorter \cup {Append(s, x) : s \in {t \in shorter : Len(t) = n - 1}, x \in S}

\* The largest index i with s[i] = ch, 0 when there is none (str.rfind + 1).
RFind(s, ch) ==
    LET hits == {i \in 1..Len(s) : s[i] = ch}
    IN  IF hits = {} THEN 0 ELSE CHOOSE i \in hits : \A j \in hits : j <= i

\* s[i..] (Python s[i-1:]).
From(s, i) == SubSeq(s, i, Len(s))

\* ------------------------------------------------------------ path algebra

\* os.path.splitext(p)[1]: the text from the last dot of the last component,
\* unless that component holds nothing but dots before it.
SplitExt(p) ==
    LET sepIndex == RFind(p, "/")
        dotIndex == RFind(p, ".")
    IN  IF dotIndex > sepIndex /\ \E k \in (sepIndex + 1)..(dotIndex - 1) : p[k] # "."
        THEN From(p, dotIndex)
        ELSE <<>>

\* os.path.basename(p): what follows the last separator.
Basename(p) == From(p, RFind(p, "/") + 1)

\* os.path.dirname(p): what precedes the last separator ("" for a bare name,
\* "/" kept for a name directly under the root).
Dirname(p) ==
    LET i == RFind(p, "/")
    IN  IF i = 0 THEN <<>>
        ELSE IF i = 1 THEN <<"/">>
        ELSE SubSeq(p, 1, i - 1)

\* os.path.join(a, b) on POSIX.
Join(a, b) ==
    IF b # <<>> /\ b[1] = "/" THEN b
    ELSE IF a = <<>> \/ a[Len(a)] = "/" THEN a \o b
    ELSE a \o <<"/">> \o b

\* --------------------------------------------------------------- filesystem
\* A filesystem is a function from the paths at which something exists to an
\* entry.  A file entry carries its decoded characters (data), whether the
\* process has permission on it (perm), whether its bytes are valid UTF-8 (utf8)
\* and whether the third-party parser of its format accepts it (wf).

FileEntry(data, perm, utf8, wf) ==
    [kind |-> "file", data |-> data, perm |-> perm, utf8 |-> utf8, wf |-> wf]

DirEntry == [kind |-> "dir"]

\* os.path.exists
OsPathExists(fs, p) == p \in DOMAIN fs

\* os.path.isdir
IsDir(fs, p) == p \in DOMAIN fs /\ fs[p].kind = "dir"

IsFile(fs, p) == p \in DOMAIN fs /\ fs[p].kind = "file"

\* The directory a new name is created in exists ("" is the working
\* directory).
ParentExists(fs, p) == Dirname(p) = <<>> \/ IsDir(fs, Dirname(p))

\* fs with path p bound to entry e.
Put(fs, p, e) == [q \in (DOMAIN fs) \cup {p} |-> IF q = p THEN e ELSE fs[q]]

\* fs with path p removed.
Remove(fs, p) == [q \in (DOMAIN fs) \ {p} |-> fs[q]]

\* Outcomes of a step that may raise.
Ok(v) == [tag |-> "ok", val |-> v]
Raise(e) == [tag |-> "raise", exc |-> e]

\* -------------------------------------------------------------- text I/O

RECURSIVE UniversalNewlines(_)
\* What a text-mode read (newline=None) hands back: CR LF and a lone CR are
\* each turned into LF.
UniversalNewlines(s) ==
    IF s = <<>> THEN <<>>
    ELSE IF s[1] = "CR"
         THEN IF Len(s) >= 2 /\ s[2] = "LF"
              THEN <<"LF">> \o UniversalNewlines(From(s, 3))
              ELSE <<"LF">> \o UniversalNewlines(Tail(s))
         ELSE <<s[1]>> \o UniversalNewlines(Tail(s))

\* A reader that opens its file for writing.
ReadModeClobber == "w"

\* The mode read_text_from_file opens text files with.
ReadMode == "r"

\* The mode create_file opens its target with.
WriteMode == "w"

\* os.linesep, which a text-mode write puts for each LF.
LineSep == <<"LF">>

RECURSIVE WriteNewlines(_)
\* What a text-mode write (newline=None) stores for the characters s.
WriteNewlines(s) ==
    IF s = <<>> THEN <<>>
    ELSE (IF s[1] = "LF" THEN LineSep ELSE <<s[1]>>) \o WriteNewlines(Tail(s))

\* open(p, mode): the exception it raises, or the entry opened.
Open(fs, p, mode) ==
    IF mode = "r"
    THEN IF ~OsPathExists(fs, p) THEN Raise("FileNotFoundError")
         ELSE IF IsDir(fs, p) THEN Raise("IsADirectoryError")
         ELSE IF ~fs[p].perm THEN Raise("PermissionError")
         ELSE Ok(fs[p])
    ELSE IF IsDir(fs, p) THEN Raise("IsADirectoryError")
         ELSE IF ~ParentExists(fs, p) THEN Raise("FileNotFoundError")
         ELSE IF OsPathExists(fs, p) /\ ~fs[p].perm THEN Raise("PermissionError")
         ELSE Ok(FileEntry(<<>>, TRUE, TRUE, TRUE))

\* The filesystem once open(p, mode) has returned or raised: mode "w"
\* truncates or creates the file, mode "r" leaves everything alone.
FsAfterOpen(fs, p, mode) ==
    IF mode = "r" \/ Open(fs, p, mode).tag = "raise" THEN fs
    ELSE Put(fs, p, FileEntry(<<>>, TRUE, TRUE, TRUE))

\* f.readline() in place of f.read(): the text up to the first line break.
ReadFirstLine(entry) ==
    IF ~entry.utf8 THEN Raise("UnicodeDecodeError")
    ELSE LET text == UniversalNewlines(entry.data)
             brk == {i \in 1..Len(text) : text[i] = "LF"}
         IN  Ok(IF brk = {} THEN text
                ELSE SubSeq(text, 1, CHOOSE i \in brk : \A j \in brk : i <= j))

\* f.read() on a file opened for reading with encoding="utf-8".
ReadAll(entry) ==
    IF ~entry.utf8 THEN Raise("UnicodeDecodeError")
    ELSE Ok(UniversalNewlines(entry.data))

\* open(p, "r", encoding="utf-8") followed by f.read().
OpenAndRead(fs, p, mode) ==
    LET o == Open(fs, p, mode)
    IN  IF o.tag = "raise" THEN o
        ELSE IF mode # "r" THEN Raise("UnsupportedOperation")
        ELSE ReadAll(o.val)

\* "sep".join(parts)
RECURSIVE JoinWith(_, _)
JoinWith(parts, sep) ==
    IF parts = <<>> THEN <<>>
    ELSE IF Len(parts) = 1 THEN parts[1]
    ELSE parts[1] \o sep \o JoinWith(Tail(parts), sep)

\* ------------------------------------------------------------ csv.reader
\* The parser of the csv module for the "excel" dialect with the given
\* delimiter: quotechar QUOTE, doublequote on, no escapechar, not strict.
\* A parser state holds the automaton state st, the field being collected,
\* the fields of the row being collected and the rows handed out so far.

CsvStart == [st |-> "START_RECORD", field |-> <<>>, fields |-> <<>>, rows |-> <<>>]

\* parse_save_field
CsvSaveField(s) == [s EXCEPT !.fields = Append(@, s.field), !.field = <<>>]

\* parse_add_char
CsvAddChar(s, c) == [s EXCEPT !.field = Append(@, c)]

CsvIsNewline(c) == c \in {"LF", "CR"}

\* The state after a line break or the end-of-line mark ended a field.
CsvAfterBreak(c) == IF c = "EOL" THEN "START_RECORD" ELSE "EAT_CRNL"

\* parse_process_char, case START_FIELD (START_RECORD falls through to it).
CsvStartField(s, c, delim) ==
    IF CsvIsNewline(c) \/ c = "EOL"
    THEN [CsvSaveField(s) EXCEPT !.st = CsvAfterBreak(c)]
    ELSE IF c = "QUOTE" THEN [s EXCEPT !.st = "IN_QUOTED_FIELD"]
    ELSE IF c = delim THEN [CsvSaveField(s) EXCEPT !.st = "START_FIELD"]
    ELSE [CsvAddChar(s, c) EXCEPT !.st = "IN_FIELD"]

\* parse_process_char: one character, or the "EOL" mark the reader feeds
\* after the last character of each line.
CsvChar(s, c, delim) ==
    CASE s.st = "START_RECORD" ->
           IF c = "EOL" THEN s
           ELSE IF CsvIsNewline(c) THEN [s EXCEPT !.st = "EAT_CRNL"]
           ELSE CsvStartField(s, c, delim)
      [] s.st = "START_FIELD" -> CsvStartField(s, c, delim)
      [] s.st = "IN_FIELD" ->
           IF CsvIsNewline(c) \/ c = "EOL"
           THEN [CsvSaveField(s) EXCEPT !.st = CsvAfterBreak(c)]
           ELSE IF c = delim THEN [CsvSaveField(s) EXCEPT !.st = "START_FIELD"]
           ELSE CsvAddChar(s, c)
      [] s.st = "IN_QUOTED_FIELD" ->
           IF c = "EOL" THEN s
           ELSE IF c = "QUOTE" THEN [s EXCEPT !.st = "QUOTE_IN_QUOTED_FIELD"]
           ELSE CsvAddChar(s, c)
      [] s.st = "QUOTE_IN_QUOTED_FIELD" ->
           IF c = "QUOTE" THEN [CsvAddChar(s, c) EXCEPT !.st = "IN_QUOTED_FIELD"]
           ELSE IF c = delim THEN [CsvSaveField(s) EXCEPT !.st = "START_FIELD"]
           ELSE IF CsvIsNewline(c) \/ c = "EOL"
           THEN [CsvSaveField(s) EXCEPT !.st = CsvAfterBreak(c)]
           ELSE [CsvAddChar(s, c) EXCEPT !.st = "IN_FIELD"]
      [] s.st = "EAT_CRNL" ->
           IF CsvIsNewline(c) THEN s
           ELSE IF c = "EOL" THEN [s EXCEPT !.st = "START_RECORD"]
           ELSE [s EXCEPT !.st = "ERROR"]
      [] OTHER -> s

\* Reader_iternext's loop test after a line: in START_RECORD the row is
\* handed out and the parser reset.
CsvEndLine(s, delim) ==
    LET t == CsvChar(s, "EOL", delim)
    IN  IF t.st = "START_RECORD"
        THEN [t EXCEPT !.rows = Append(@, t.fields), !.fields = <<>>, !.field = <<>>]
        ELSE t

\* Reader_iternext at the end of the input: a pending field, or an open
\* quoted field, still makes a row.
CsvEndInput(s) ==
    IF s.st # "ERROR" /\ (s.field # <<>> \/ s.st = "IN_QUOTED_FIELD")
    THEN [s EXCEPT !.rows = Append(@, Append(s.fields, s.field))]
    ELSE s

RECURSIVE CsvFeed(_, _, _, _)
\* The parser run over text[i..], fed line by line as file iteration hands
\* the lines over (each line ends with its LF; the last may lack one).
CsvFeed(s, text, i, delim) ==
    IF i > Len(text) THEN CsvEndInput(s)
    ELSE LET t == CsvChar(s, text[i], delim)
         IN  IF text[i] = "LF" \/ i = Len(text)
             THEN CsvFeed(CsvEndLine(t, delim), text, i + 1, delim)
             ELSE CsvFeed(t, text, i + 1, delim)

\* list(csv.reader(f, delimiter=delim)) for the decoded text of f.
CsvRows(text, delim) == CsvFeed(CsvStart, text, 1, delim).rows

\* "\n".join([delimiter.join(row) for row in reader])
CsvJoin(rows, delim) ==
    JoinWith([i \in 1..Len(rows) |-> JoinWith(rows[i], <<delim>>)], <<"LF">>)

\* ------------------------------------------------------------- extensions

ExtTxt == <<".", "t", "x", "t">>
ExtLog == <<".", "l", "o", "g">>
ExtMd == <<".", "m", "d">>
ExtIni == <<".", "i", "n", "i">>
ExtCfg == <<".", "c", "f", "g">>
ExtSql == <<".", "s", "q", "l">>
ExtBat == <<".", "b", "a", "t">>
ExtSh == <<".", "s", "h">>
ExtJson == <<".", "j", "s", "o", "n">>
ExtXml == <<".", "x", "m", "l">>
ExtCsv == <<".", "c", "s", "v">>
ExtTsv == <<".", "t", "s", "v">>
ExtXlsx == <<".", "x", "l", "s", "x">>
ExtXls == <<".", "x", "l", "s">>
ExtDocx == <<".", "d", "o", "c", "x">>
ExtDoc == <<".", "d", "o", "c">>
ExtHtml == <<".", "h", "t", "m", "l">>
ExtHtm == <<".", "h", "t", "m">>
ExtYaml == <<".", "y", "a", "m", "l">>
ExtYml == <<".", "y", "m", "l">>

\* An extension the chain has no branch for.
ExtXyz == <<".", "x", "y", "z">>

\* A chain whose last arm reads the file as plain text instead of refusing.
BranchFallbackText(file_ext) ==
    IF file_ext = ExtJson THEN "json"
    ELSE IF file_ext = ExtXml THEN "xml"
    ELSE IF file_ext \in {ExtCsv, ExtTsv} THEN "csv"
    ELSE IF file_ext \in {ExtXlsx, ExtXls} THEN "excel"
    ELSE IF file_ext \in {ExtDocx, ExtDoc} THEN "word"
    ELSE IF file_ext \in {ExtHtml, ExtHtm} THEN "html"
    ELSE IF file_ext \in {ExtYaml, ExtYml} THEN "yaml"
    ELSE "text"

\* The branch of the if/elif chain that file_ext selects.  The comparison is
\* with the extension as splitext returned it: no case folding.
Branch(file_ext) ==
    IF file_ext \in {ExtTxt, ExtLog, ExtMd, ExtIni, ExtCfg, ExtSql, ExtBat, ExtSh}
    THEN "text"
    ELSE IF file_ext = ExtJson THEN "json"
    ELSE IF file_ext = ExtXml THEN "xml"
    ELSE IF file_ext \in {ExtCsv, ExtTsv} THEN "csv"
    ELSE IF file_ext \in {ExtXlsx, ExtXls} THEN "excel"
    ELSE IF file_ext \in {ExtDocx, ExtDoc} THEN "word"
    ELSE IF file_ext \in {ExtHtml, ExtHtm} THEN "html"
    ELSE IF file_ext \in {ExtYaml, ExtYml} THEN "yaml"
    ELSE "unsupported"

\* ----------------------------------------------------------------- results
\* What a call hands back and what it printed.  some = FALSE is None.  kind
\* says what body holds: "chars" is text computed here character by
\* character; "json", "xml", "excel" and "word" are the library's rendering
\* of the document parsed from the characters in body.

Text(kind, body) ==
    [some |-> TRUE, kind |-> kind, body |-> body, cause |-> "none", about |-> <<>>]

None(cause, about) ==
    [some |-> FALSE, kind |-> "none", body |-> <<>>, cause |-> cause, about |-> about]

\* ------------------------------------------------------------------- YAML
\* A YAML document is written as tokens: a mapping line is key, ":", value,
\* "LF".  Keys are "k1", "k2", ...; KeyRank is their order as strings.

YamlKey(n) ==
    CASE n = 1 -> "k1" [] n = 2 -> "k2" [] n = 3 -> "k3" [] n = 4 -> "k4" [] OTHER -> "k5"

KeyRank(k) ==
    CASE k = "k1" -> 1 [] k = "k2" -> 2 [] k = "k3" -> 3 [] k = "k4" -> 4 [] OTHER -> 5

RECURSIVE YamlLines(_)
\* The mapping lines of a well-formed document, as <<key, value>> pairs in
\* the order of the file.
YamlLines(text) ==
    IF Len(text) < 3 THEN <<>>
    ELSE <<<<text[1], text[3]>>>> \o YamlLines(From(text, IF Len(text) >= 4 THEN 5 ELSE 4))

\* yaml.safe_load of a mapping: the dict it builds, as the keys in insertion
\* order and the value last given to each (a repeated key keeps its first
\* position and takes the later value).
YamlLoad(text) ==
    LET lines == YamlLines(text)
        first(i) == \A j \in 1..(i - 1) : lines[j][1] # lines[i][1]
        lastOf(k) == CHOOSE i \in 1..Len(lines) :
                        lines[i][1] = k /\ \A j \in (i + 1)..Len(lines) : lines[j][1] # k
        keep == SelectSeq([i \in 1..Len(lines) |-> i], first)
    IN  [i \in 1..Len(keep) |-> <<lines[keep[i]][1], lines[lastOf(lines[keep[i]][1])][2]>>]

RECURSIVE SortByKey(_)
\* sorted(mapping.items()) as the representer of yaml.dump does with
\* sort_keys left at its default, True.
SortByKey(items) ==
    IF items = <<>> THEN <<>>
    ELSE LET m == CHOOSE i \in 1..Len(items) :
                     \A j \in 1..Len(items) : KeyRank(items[i][1]) <= KeyRank(items[j][1])
         IN  <<items[m]>> \o SortByKey([i \in 1..(Len(items) - 1) |->
                                          IF i < m THEN items[i] ELSE items[i + 1]])

\* yaml.dump(data, default_flow_style=False, allow_unicode=True): one
\* "key: value" line per item in block style; None is dumped as "null".
YamlDump(items) ==
    IF items = <<>> THEN <<"null", "LF", "...", "LF">>
    ELSE LET sorted == SortByKey(items)
         IN  JoinWith([i \in 1..Len(sorted) |-> <<sorted[i][1], ":", sorted[i][2], "LF">>], <<>>)

\* ---------------------------------------------------- read_text_from_file

\* A library opening p itself, read-only and binary (ET.parse,
\* pd.read_excel, Document).
LibOpen(fs, p) == Open(fs, p, "r")

\* Whether the branch opens the file with Python's open(..., mode).
OpensAsText(branch, yaml_ok) ==
    branch \in {"text", "html", "json", "csv"} \/ (branch = "yaml" /\ yaml_ok)

\* Whether the branch opens the file at all.
OpensFile(branch, yaml_ok) ==
    OpensAsText(branch, yaml_ok) \/ branch \in {"xml", "excel", "word"}

\* The except clauses inside the Excel, Word and YAML branches: whatever is
\* raised there becomes None with the branch's own message.
InnerTry(o, cause) == IF o.tag = "raise" THEN Ok(None(cause, <<o.exc>>)) ELSE o

\* The if/elif chain on file_ext with what each branch returns or raises,
\* before the outer except.
DecodeOutcome(fs, p, file_ext, mode, yaml_ok) ==
    LET b == Branch(file_ext)
        r == OpenAndRead(fs, p, mode)
        l == LibOpen(fs, p)
    IN  CASE b \in {"text", "html"} ->
               IF r.tag = "raise" THEN r ELSE Ok(Text("chars", r.val))
          [] b = "json" ->
               IF r.tag = "raise" THEN r
               ELSE IF ~fs[p].wf THEN Raise("JSONDecodeError")
               ELSE Ok(Text("json", r.val))
          [] b = "xml" ->
               IF l.tag = "raise" THEN l
               ELSE IF ~l.val.utf8 \/ ~l.val.wf THEN Raise("ParseError")
               ELSE Ok(Text("xml", l.val.data))
          [] b = "csv" ->
               LET delimiter == IF file_ext = ExtCsv THEN "COMMA" ELSE "TAB"
               IN  IF r.tag = "raise" THEN r
                   ELSE IF CsvFeed(CsvStart, r.val, 1, delimiter).st = "ERROR"
                   THEN Raise("csv.Error")
                   ELSE Ok(Text("chars", CsvJoin(CsvRows(r.val, delimiter), delimiter)))
          [] b = "excel" ->
               InnerTry(IF l.tag = "raise" THEN l
                        ELSE IF ~l.val.wf THEN Raise("ValueError")
                        ELSE Ok(Text("excel", l.val.data)),
                        "excel_failed")
          [] b = "word" ->
               InnerTry(IF l.tag = "raise" THEN l
                        ELSE IF ~l.val.wf THEN Raise("PackageNotFoundError")
                        ELSE Ok(Text("word", l.val.data)),
                        "word_failed")
          [] b = "yaml" ->
               IF ~yaml_ok THEN Ok(None("yaml_missing", <<"ImportError">>))
               ELSE InnerTry(IF r.tag = "raise" THEN r
                             ELSE IF ~fs[p].wf THEN Raise("YAMLError")
                             ELSE Ok(Text("chars", YamlDump(YamlLoad(r.val)))),
                             "yaml_failed")
          [] OTHER -> Ok(None("unsupported", file_ext))

\* An outer handler that catches OSError only: decoding and parsing errors
\* pass through it.
OuterTryOSErrorOnly(o) ==
    IF o.tag = "raise" /\ o.exc \in {"FileNotFoundError", "IsADirectoryError", "PermissionError"}
    THEN Ok(None("read_failed", <<o.exc>>))
    ELSE o

\* The outer try/except Exception: anything raised in the body becomes None.
OuterTry(o) == IF o.tag = "raise" THEN Ok(None("read_failed", <<o.exc>>)) ELSE o

\* A reader that goes on whether or not the path exists.
FileExistsCheckSkipped(fs, p) == TRUE

\* The test of "if not os.path.exists(file_path)".
FileExistsCheck(fs, p) == OsPathExists(fs, p)

\* The whole function on one filesystem, run with nothing else going on.
ReadTextFromFile(fs, p, yaml_ok) ==
    IF ~FileExistsCheck(fs, p) THEN None("not_found", p)
    ELSE OuterTry(DecodeOutcome(fs, p, SplitExt(p), ReadMode, yaml_ok)).val

\* ------------------------------------------------------------------ state

VARIABLES
    fs,              \* the filesystem
    yaml_installed,  \* whether "import yaml" succeeds in this runtime
    host,            \* the arguments the host draws its calls from
    pc,              \* reader call -> "idle", "exists", "dispatch", "decode", "done", "raised"
    path,            \* reader call -> its file_path argument
    file_ext,        \* slot -> the extension a call computed
    result,          \* reader call -> what it returned and printed
    opened,          \* reader call -> whether it has opened its file
    batch,           \* the batch tool call in progress
    calls            \* the copy_file / move_file calls the batch call made

vars == <<fs, yaml_installed, host, pc, path, file_ext, result,
          opened, batch, calls>>

Calls == 1..NCalls

\* file_ext kept in one module-level variable that all calls share.
ExtSlotShared(c) == 1

\* Where call c keeps file_ext: a local variable of its own activation.
ExtSlot(c) == c

readerVars == <<pc, path, file_ext, result, opened>>
batchVars == <<batch, calls>>
envVars == <<yaml_installed, host>>

\* The host invokes read_text_from_file(p).
ReadCall(c) ==
    /\ c \in host.callers
    /\ pc[c] = "idle"
    /\ \E p \in host.targets : path' = [path EXCEPT ![c] = p]
    /\ pc' = [pc EXCEPT ![c] = "exists"]
    /\ UNCHANGED <<fs, file_ext, result, opened, batchVars, envVars>>

\* if not os.path.exists(file_path): print(...); return None
ReadExists(c) ==
    /\ pc[c] = "exists"
    /\ IF FileExistsCheck(fs, path[c])
       THEN /\ pc' = [pc EXCEPT ![c] = "dispatch"]
            /\ UNCHANGED result
       ELSE /\ pc' = [pc EXCEPT ![c] = "done"]
            /\ result' = [result EXCEPT ![c] = None("not_found", path[c])]
    /\ UNCHANGED <<fs, path, file_ext, opened, batchVars, envVars>>

\* _, file_ext = os.path.splitext(file_path)
ReadDispatch(c) ==
    /\ pc[c] = "dispatch"
    /\ file_ext' = [file_ext EXCEPT ![ExtSlot(c)] = SplitExt(path[c])]
    /\ pc' = [pc EXCEPT ![c] = "decode"]
    /\ UNCHANGED <<fs, path, result, opened, batchVars, envVars>>

\* The branch file_ext selects, run to its return or to the outer except.
ReadDecode(c) ==
    /\ pc[c] = "decode"
    /\ LET ext == file_ext[ExtSlot(c)]
           o == OuterTry(DecodeOutcome(fs, path[c], ext, ReadMode, yaml_installed))
       IN  /\ pc' = [pc EXCEPT ![c] = IF o.tag = "ok" THEN "done" ELSE "raised"]
           /\ result' = IF o.tag = "ok" THEN [result EXCEPT ![c] = o.val] ELSE result
           /\ opened' = [opened EXCEPT ![c] = OpensFile(Branch(ext), yaml_installed)]
           /\ fs' = IF OpensAsText(Branch(ext), yaml_installed)
                    THEN FsAfterOpen(fs, path[c], ReadMode)
                    ELSE fs
    /\ UNCHANGED <<path, file_ext, batchVars, envVars>>

NextRead == \E c \in Calls : ReadCall(c) \/ ReadExists(c) \/ ReadDispatch(c) \/ ReadDecode(c)

\* ------------------------------------------------------------ create_file

\* async with aiofiles.open(file_path, mode='w') as f: await f.write(content)
\* The filesystem afterwards and the boolean returned.
CreateFileOn(fs0, p, content) ==
    LET o == Open(fs0, p, WriteMode)
    IN  IF o.tag = "raise" THEN [fs |-> fs0, ret |-> FALSE]
        ELSE [fs |-> Put(FsAfterOpen(fs0, p, WriteMode), p,
                         [o.val EXCEPT !.data = WriteNewlines(content)]),
              ret |-> TRUE]

\* The host writes the text a finished reader call returned to a file of the
\* same extension as the one it was read from.
CreateFile ==
    /\ \E p \in host.create_targets, c \in Calls :
          /\ pc[c] = "done"
          /\ result[c].some
          /\ result[c].kind = "chars"
          /\ SplitExt(p) = SplitExt(path[c])
          /\ fs' = CreateFileOn(fs, p, result[c].body).fs
    /\ UNCHANGED <<readerVars, batchVars, envVars>>

\* ----------------------------------------------------- shutil.copy2 / move

\* q is src or lies below it.
Under(q, src) ==
    \/ q = src
    \/ /\ Len(q) > Len(src) + 1
       /\ SubSeq(q, 1, Len(src)) = src
       /\ q[Len(src) + 1] = "/"

RECURSIVE Ancestors(_)
\* The directories on the way down to p.
Ancestors(p) == IF Dirname(p) \in {<<>>, <<"/">>} THEN {} ELSE {Dirname(p)} \cup Ancestors(Dirname(p))

\* fs0 without the paths `dropped` and with each path of `copied` (src or
\* below it) bound at the same place under dst.
Rebased(fs0, src, dst, copied, dropped) ==
    LET rebase(q) == dst \o From(q, Len(src) + 1)
        new == {rebase(q) : q \in copied}
    IN  [n \in (((DOMAIN fs0) \ dropped) \cup new) |->
            IF n \in new THEN fs0[CHOOSE q \in copied : rebase(q) = n] ELSE fs0[n]]

\* shutil.copy2(src, dst): copyfile then copystat.
Copy2(fs0, src, dst) ==
    LET real == IF IsDir(fs0, dst) THEN Join(dst, Basename(src)) ELSE dst
        s == Open(fs0, src, "r")
        exc == IF OsPathExists(fs0, src) /\ src = real THEN "SameFileError"
               ELSE IF s.tag = "raise" THEN s.exc
               ELSE IF IsDir(fs0, real) THEN "IsADirectoryError"
               ELSE IF ~ParentExists(fs0, real) THEN "FileNotFoundError"
               ELSE IF OsPathExists(fs0, real) /\ ~fs0[real].perm THEN "PermissionError"
               ELSE "none"
    IN  IF exc # "none" THEN [fs |-> fs0, out |-> Raise(exc)]
        ELSE [fs |-> Put(fs0, real, fs0[src]), out |-> Ok(real)]

\* os.rename(src, dst): the errno it fails with, "none" when it succeeds.
RenameError(fs0, src, dst) ==
    IF ~OsPathExists(fs0, src) THEN "ENOENT"
    ELSE IF ~ParentExists(fs0, dst) THEN "ENOENT"
    ELSE IF src = dst THEN "none"
    ELSE IF IsDir(fs0, src) /\ Under(dst, src) THEN "EINVAL"
    ELSE IF IsDir(fs0, src) /\ IsFile(fs0, dst) THEN "ENOTDIR"
    ELSE IF IsDir(fs0, src) /\ \E q \in DOMAIN fs0 : q # dst /\ Under(q, dst) THEN "ENOTEMPTY"
    ELSE IF IsFile(fs0, src) /\ IsDir(fs0, dst) THEN "EISDIR"
    ELSE "none"

\* shutil.copytree(src, dst) followed, when it raised nothing, by
\* shutil.rmtree(src): the fallback of shutil.move for a directory.
CopyTreeThenRemove(fs0, src, dst) ==
    LET tree == {q \in DOMAIN fs0 : Under(q, src)}
        ok == {q \in tree : fs0[q].kind = "dir" \/ fs0[q].perm}
        missing == {a \in Ancestors(dst) : ~OsPathExists(fs0, a)}
        made == [n \in (DOMAIN fs0) \cup missing |-> IF n \in missing THEN DirEntry ELSE fs0[n]]
    IN  IF OsPathExists(fs0, dst) THEN [fs |-> fs0, out |-> Raise("FileExistsError")]
        ELSE IF \E a \in Ancestors(dst) : IsFile(fs0, a)
        THEN [fs |-> fs0, out |-> Raise("NotADirectoryError")]
        ELSE IF ok # tree THEN [fs |-> Rebased(made, src, dst, ok, {}), out |-> Raise("Error")]
        ELSE [fs |-> Rebased(made, src, dst, tree, tree), out |-> Ok(dst)]

\* shutil.move(src, dst)
Move(fs0, src, dst) ==
    LET into == IsDir(fs0, dst)
        real == IF into THEN Join(dst, Basename(src)) ELSE dst
        tree == {q \in DOMAIN fs0 : Under(q, src)}
        c == Copy2(fs0, src, real)
    IN  IF into /\ src = dst THEN [fs |-> fs0, out |-> Ok(dst)]
        ELSE IF into /\ OsPathExists(fs0, real) THEN [fs |-> fs0, out |-> Raise("Error")]
        ELSE IF RenameError(fs0, src, real) = "none"
        THEN [fs |-> IF src = real THEN fs0 ELSE Rebased(fs0, src, real, tree, tree \cup {real}),
              out |-> Ok(real)]
        ELSE IF IsDir(fs0, src)
        THEN IF Under(real, src) THEN [fs |-> fs0, out |-> Raise("Error")]
             ELSE CopyTreeThenRemove(fs0, src, real)
        ELSE IF c.out.tag = "raise" THEN c
        ELSE [fs |-> Remove(c.fs, src), out |-> Ok(real)]

\* ------------------------------------------------- copy_file / move_file

\* try: ...; return True / except Exception: print(...); return False
ToolTry(out) == IF out.tag = "raise" THEN Ok(FALSE) ELSE Ok(TRUE)

\* copy_file(src, dst): the filesystem afterwards, whether shutil.copy2 went
\* through, and what the tool returned.
CopyFile(fs0, src, dst) ==
    LET c == Copy2(fs0, src, dst)
    IN  [fs |-> c.fs, went |-> c.out.tag = "ok", ret |-> ToolTry(c.out)]

\* move_file(src, dst), likewise with shutil.move.
MoveFile(fs0, src, dst) ==
    LET m == Move(fs0, src, dst)
    IN  [fs |-> m.fs, went |-> m.out.tag = "ok", ret |-> ToolTry(m.out)]

\* ------------------------------------- batch_copy_files / batch_move_files

\* dst = os.path.join(dst_dir, os.path.basename(src))
BatchDst(dst_dir, src) == Join(dst_dir, Basename(src))

\* A loop that is left at the first source that failed.
LoopDoneOnFailure(b) ==
    \/ Len(b.results) = Len(b.src_paths)
    \/ (b.results # <<>> /\ ~b.results[Len(b.results)])

\* "for src in src_paths" has run out of sources.
LoopDone(b) == Len(b.results) = Len(b.src_paths)

BatchIdle == [pc |-> "idle", op |-> "none", src_paths |-> <<>>, dst_dir |-> <<>>,
              results |-> <<>>, returned |-> <<>>]

\* The host invokes batch_copy_files or batch_move_files, once in a run:
\* results = [].
BatchCall ==
    /\ batch.pc = "idle"
    /\ \E op \in {"copy", "move"}, srcs \in SeqsUpTo(host.sources, MaxBatch),
          dir \in host.dst_dirs :
          batch' = [pc |-> "loop", op |-> op, src_paths |-> srcs, dst_dir |-> dir,
                    results |-> <<>>, returned |-> <<>>]
    /\ calls' = <<>>
    /\ UNCHANGED <<fs, readerVars, envVars>>

\* One turn of "for src in src_paths": the single-file tool is awaited and
\* its answer appended.
BatchStep ==
    /\ batch.pc = "loop"
    /\ ~LoopDone(batch)
    /\ LET src == batch.src_paths[Len(batch.results) + 1]
           dst == BatchDst(batch.dst_dir, src)
           t == IF batch.op = "copy" THEN CopyFile(fs, src, dst) ELSE MoveFile(fs, src, dst)
       IN  /\ fs' = t.fs
           /\ calls' = Append(calls, [fn |-> batch.op, src |-> src, dst |-> dst, went |-> t.went])
           /\ batch' = IF t.ret.tag = "ok"
                       THEN [batch EXCEPT !.results = Append(@, t.ret.val)]
                       ELSE [batch EXCEPT !.pc = "raised"]
    /\ UNCHANGED <<readerVars, envVars>>

\* return results
BatchReturn ==
    /\ batch.pc = "loop"
    /\ LoopDone(batch)
    /\ batch' = [batch EXCEPT !.pc = "returned", !.returned = batch.results]
    /\ UNCHANGED <<fs, calls, readerVars, envVars>>

NextBatch == BatchCall \/ BatchStep \/ BatchReturn

\* ------------------------------------------------------------ initial states

\* The directories and names used below.
DirS == <<"s">>
DirD == <<"d">>
DirM == <<"m">>

\* The path of `name` in directory `dir`.
In(dir, name) == Join(dir, name)

\* A readable, well-formed UTF-8 file.
Plain(data) == FileEntry(data, TRUE, TRUE, TRUE)

\* A filesystem from a set of <<path, entry>> pairs.
FsOf(pairs) ==
    [p \in {pe[1] : pe \in pairs} |-> (CHOOSE pe \in pairs : pe[1] = p)[2]]

NoResult == None("none", <<>>)

\* No reader call and no batch call has been made.
Quiet ==
    /\ pc = [c \in Calls |-> "idle"]
    /\ path = [c \in Calls |-> <<>>]
    /\ file_ext = [c \in Calls |-> <<>>]
    /\ result = [c \in Calls |-> NoResult]
    /\ opened = [c \in Calls |-> FALSE]
    /\ batch = BatchIdle
    /\ calls = <<>>

PathATxt == In(DirS, <<"a">> \o ExtTxt)
PathAUpperTxt == In(DirS, <<"a", ".", "T", "X", "T">>)
PathCJson == In(DirS, <<"c">> \o ExtJson)
PathCMixedJson == In(DirS, <<"c", ".", "J", "s", "o", "n">>)
PathEXyz == In(DirS, <<"e">> \o ExtXyz)
PathFXyz == In(DirS, <<"f">> \o ExtXyz)
PathG == In(DirS, <<"g">>)
PathHCsv == In(DirS, <<"h">> \o ExtCsv)
PathIYaml == In(DirS, <<"i">> \o ExtYaml)
PathJXlsx == In(DirS, <<"j">> \o ExtXlsx)
PathKDocx == In(DirS, <<"k">> \o ExtDocx)
PathLXml == In(DirS, <<"l">> \o ExtXml)
PathNHtml == In(DirS, <<"n">> \o ExtHtml)
PathQMd == In(DirS, <<"q">> \o ExtMd)
PathQChild == In(PathQMd, <<"z">> \o ExtTxt)
PathUTxt == In(DirS, <<"u">> \o ExtTxt)
PathVLog == In(DirS, <<"v">> \o ExtLog)
PathWJson == In(DirS, <<"w">> \o ExtJson)
PathMissingTxt == In(DirM, <<"a">> \o ExtTxt)
PathMissingXyz == In(DirM, <<"b">> \o ExtXyz)
PathMissingBare == In(DirM, <<"c">>)
PathDTxt == In(DirD, <<"a">> \o ExtTxt)

\* Files of mixed formats, some of them damaged: u.txt may not be read,
\* v.log is not UTF-8, w.json and j.xlsx do not parse, q.md is a directory.
\* Nothing exists under m.
FsMixed ==
    FsOf({<<DirS, DirEntry>>, <<DirD, DirEntry>>,
          <<PathATxt, Plain(<<"x", "CR", "LF", "y">>)>>,
          <<PathAUpperTxt, Plain(<<"x", "CR", "LF", "y">>)>>,
          <<PathCJson, Plain(<<"x">>)>>,
          <<PathCMixedJson, Plain(<<"x">>)>>,
          <<PathEXyz, Plain(<<"x">>)>>,
          <<PathFXyz, Plain(<<"y">>)>>,
          <<PathG, Plain(<<"x">>)>>,
          <<PathHCsv, Plain(<<"x", "COMMA", "QUOTE", "y", "COMMA", "QUOTE", "LF">>)>>,
          <<PathIYaml, Plain(<<"k2", ":", "v1", "LF", "k1", ":", "v1", "LF">>)>>,
          <<PathJXlsx, FileEntry(<<"x">>, TRUE, TRUE, FALSE)>>,
          <<PathKDocx, Plain(<<"x", "LF", "y">>)>>,
          <<PathLXml, FileEntry(<<"x">>, TRUE, TRUE, FALSE)>>,
          <<PathNHtml, Plain(<<"x", "CR">>)>>,
          <<PathQMd, DirEntry>>,
          <<PathQChild, Plain(<<"y">>)>>,
          <<PathUTxt, FileEntry(<<"x">>, FALSE, TRUE, TRUE)>>,
          <<PathVLog, FileEntry(<<"x">>, TRUE, FALSE, TRUE)>>,
          <<PathWJson, FileEntry(<<"x">>, TRUE, TRUE, FALSE)>>})

\* Concurrent readers on a fixed filesystem.
ReadTargets ==
    {PathATxt, PathAUpperTxt, PathCJson, PathCMixedJson, PathEXyz, PathFXyz, PathG,
     PathHCsv, PathIYaml, PathJXlsx, PathKDocx, PathUTxt,
     PathMissingTxt, PathMissingXyz, PathMissingBare}

InitRead ==
    /\ fs = FsMixed
    /\ yaml_installed \in BOOLEAN
    /\ host = [targets |-> ReadTargets, create_targets |-> {}, callers |-> Calls,
               sources |-> {}, dst_dirs |-> {}]
    /\ Quiet

SpecRead == InitRead /\ [][NextRead]_vars

\* One reader beside the batch tools and create_file.
MainTargets ==
    {PathATxt, PathDTxt, PathUTxt, PathVLog, PathWJson, PathLXml, PathNHtml,
     PathQMd, PathJXlsx, PathKDocx, PathIYaml, PathHCsv}

Init ==
    /\ fs = FsMixed
    /\ yaml_installed \in BOOLEAN
    /\ host = [targets |-> MainTargets, create_targets |-> {PathDTxt}, callers |-> {1},
               sources |-> {PathATxt, PathMissingTxt, PathUTxt, PathQMd},
               dst_dirs |-> {DirD, DirM}]
    /\ Quiet

Next == NextRead \/ CreateFile \/ NextBatch

Spec == Init /\ [][Next]_vars

\* One file of a format computed here, read, written back by create_file
\* under a second name, and read again.
TextExts == {ExtTxt, ExtLog, ExtMd, ExtIni, ExtCfg, ExtSql, ExtBat, ExtSh, ExtHtml, ExtHtm}

TextEntries ==
    {Plain(d) : d \in SeqsUpTo({"x", "CR", "LF"}, MaxLen)}
        \cup {FileEntry(<<"x">>, FALSE, TRUE, TRUE), FileEntry(<<"x">>, TRUE, FALSE, TRUE)}

CsvEntries == {Plain(d) : d \in SeqsUpTo({"x", "COMMA", "QUOTE", "LF"}, MaxLen)}

\* The document with one "key: v1" line per key of ks, in that order.
YamlDoc(ks) == JoinWith([i \in 1..Len(ks) |-> <<YamlKey(ks[i]), ":", "v1", "LF">>], <<>>)

YamlEntries ==
    {Plain(YamlDoc(ks)) : ks \in SeqsUpTo(1..MaxKey, MaxLen)}
        \cup {FileEntry(<<"k1", ":", "v1", ":", "v1">>, TRUE, TRUE, FALSE)}

FmtFiles ==
    (TextExts \X TextEntries) \cup ({ExtCsv} \X CsvEntries) \cup ({ExtYaml, ExtYml} \X YamlEntries)

InitFmt ==
    /\ \E f \in FmtFiles :
          /\ fs = FsOf({<<DirS, DirEntry>>, <<In(DirS, <<"a">> \o f[1]), f[2]>>})
          /\ host = [targets |-> {In(DirS, <<"a">> \o f[1]), In(DirS, <<"b">> \o f[1])},
                     create_targets |-> {In(DirS, <<"b">> \o f[1])},
                     callers |-> {1, 2}, sources |-> {}, dst_dirs |-> {}]
    /\ yaml_installed = TRUE
    /\ Quiet

NextFmt == NextRead \/ CreateFile

SpecFmt == InitFmt /\ [][NextFmt]_vars

\* ================================================================ properties

Done(c) == pc[c] = "done"

\* The extensions the reader has a branch for, as the documentation lists
\* them.
MappedExts ==
    {ExtTxt, ExtLog, ExtMd, ExtIni, ExtCfg, ExtSql, ExtBat, ExtSh, ExtJson, ExtXml,
     ExtCsv, ExtTsv, ExtXlsx, ExtXls, ExtDocx, ExtDoc, ExtHtml, ExtHtm, ExtYaml, ExtYml}

\* str.lower() on the letters that occur in the paths used here.
LowerChar(ch) ==
    CASE ch = "T" -> "t" [] ch = "X" -> "x" [] ch = "J" -> "j" [] ch = "S" -> "s"
      [] ch = "O" -> "o" [] ch = "N" -> "n" [] OTHER -> ch

Lower(str) == [i \in 1..Len(str) |-> LowerChar(str[i])]

\* C1: read_text_from_file never lets an exception escape: whatever fails
\* while checking, opening, reading or decoding, every call that has ended
\* has ended by returning a text or None, and each None comes with its
\* printed cause.
C1_NeverRaises ==
    \A c \in Calls :
        /\ pc[c] # "raised"
        /\ Done(c) => \/ result[c].some /\ result[c].cause = "none"
                      \/ ~result[c].some /\ result[c].kind = "none" /\ result[c].cause # "none"

\* A call whose file vanished between the existence check and the open has
\* returned None through the outer handler.
C1_Witness ==
    \E c \in Calls :
        /\ Done(c)
        /\ result[c].cause = "read_failed"
        /\ result[c].about = <<"FileNotFoundError">>

\* C2: a call on a path at which nothing exists returns None with the
\* "not found" cause naming the path, whatever the extension, and has neither
\* computed an extension nor opened anything.
C2_MissingIsNotFound ==
    \A c \in Calls :
        (Done(c) /\ path[c] \notin DOMAIN fs) =>
            /\ result[c] = None("not_found", path[c])
            /\ file_ext[c] = <<>>
            /\ ~opened[c]

\* A call on a missing path with an unmapped extension, and one on a missing
\* path with a mapped extension, have both ended.
C2_Witness ==
    \E c1, c2 \in Calls :
        /\ Done(c1) /\ path[c1] = PathMissingXyz
        /\ Done(c2) /\ path[c2] = PathMissingTxt

\* C3: a call on an existing file whose extension has no branch returns None
\* with a cause naming that extension and never opens the file; two such
\* calls on files of the same extension return the same, whatever the files
\* hold.
C3_UnmappedIsUnsupported ==
    /\ \A c \in Calls :
           (Done(c) /\ path[c] \in DOMAIN fs /\ SplitExt(path[c]) \notin MappedExts) =>
               /\ result[c] = None("unsupported", SplitExt(path[c]))
               /\ ~opened[c]
    /\ \A c1, c2 \in Calls :
           (/\ Done(c1) /\ Done(c2)
            /\ path[c1] \in DOMAIN fs /\ path[c2] \in DOMAIN fs
            /\ SplitExt(path[c1]) \notin MappedExts
            /\ SplitExt(path[c1]) = SplitExt(path[c2])) => result[c1] = result[c2]

\* Two calls on files of the same unmapped extension and different contents
\* have ended.
C3_Witness ==
    \E c1, c2 \in Calls :
        /\ Done(c1) /\ path[c1] = PathEXyz
        /\ Done(c2) /\ path[c2] = PathFXyz
        /\ fs[PathEXyz].data # fs[PathFXyz].data

\* C4: the branch chosen depends only on the case-folded extension: two
\* calls on existing paths whose extensions differ only in letter case have
\* selected the same branch.
C4_CaseFoldedDispatch ==
    \A c1, c2 \in Calls :
        (/\ Done(c1) /\ Done(c2)
         /\ path[c1] \in DOMAIN fs /\ path[c2] \in DOMAIN fs
         /\ Lower(SplitExt(path[c1])) = Lower(SplitExt(path[c2])))
            => Branch(file_ext[c1]) = Branch(file_ext[c2])

\* C5: CSV canonicalization is idempotent: when the output of one call on a
\* .csv file has been written back as a .csv file and read again, the second
\* output is the first.
C5_CsvIdempotent ==
    \A c1, c2 \in Calls :
        (/\ Done(c1) /\ Done(c2)
         /\ SplitExt(path[c1]) = ExtCsv /\ SplitExt(path[c2]) = ExtCsv
         /\ path[c1] \notin host.create_targets
         /\ path[c2] \in host.create_targets
         /\ result[c1].some /\ result[c2].some)
            => result[c2].body = result[c1].body

\* The characters of data with every CR LF pair and every lone CR turned into
\* one LF, the others kept.
NewlinesFolded(data) ==
    LET keep == SelectSeq([i \in 1..Len(data) |-> i],
                          LAMBDA i : ~(data[i] = "LF" /\ i > 1 /\ data[i - 1] = "CR"))
    IN  [j \in 1..Len(keep) |-> IF data[keep[j]] = "CR" THEN "LF" ELSE data[keep[j]]]

\* The files C6 speaks of: the call has ended on an existing file it was
\* allowed to read, valid UTF-8, with a plain-text or markup extension, that
\* nothing has written since.
C6_Case(c) ==
    /\ Done(c)
    /\ path[c] \in DOMAIN fs
    /\ path[c] \notin host.create_targets
    /\ SplitExt(path[c]) \in TextExts
    /\ fs[path[c]].kind = "file" /\ fs[path[c]].perm /\ fs[path[c]].utf8

\* C6 as stated: the text returned is the decoded content character for
\* character, line endings included.
C6_Verbatim ==
    \A c \in Calls : C6_Case(c) => result[c].some /\ result[c].body = fs[path[c]].data

\* C6 (amended): the text returned is the decoded content with every CR LF
\* pair and every lone CR replaced by a single LF, and no other change.
C6_VerbatimUpToNewlines ==
    \A c \in Calls :
        C6_Case(c) => /\ result[c].some
                      /\ result[c].kind = "chars"
                      /\ result[c].body = NewlinesFolded(fs[path[c]].data)

\* A plain-text file holding a CR has been read, and what came back differs
\* from what it holds.
C6_Witness ==
    \E c \in Calls :
        /\ C6_Case(c)
        /\ \E i \in 1..Len(fs[path[c]].data) : fs[path[c]].data[i] = "CR"
        /\ Len(fs[path[c]].data) >= 2
        /\ result[c].some /\ result[c].body # fs[path[c]].data

\* The keys of the "key: value" lines of text, one per line, in order.
LineKeys(text) == [i \in 1..(Len(text) \div 4) |-> text[4 * (i - 1) + 1]]

\* The keys of ks in the order in which each first appears.
FirstAppearances(ks) ==
    LET idx == SelectSeq([i \in 1..Len(ks) |-> i],
                         LAMBDA i : \A j \in 1..(i - 1) : ks[j] # ks[i])
    IN  [j \in 1..Len(idx) |-> ks[idx[j]]]

\* C7: a well-formed .yaml/.yml mapping comes back in block style with its
\* keys in the order in which they appear in the file.
C7_YamlKeepsKeyOrder ==
    \A c \in Calls :
        (/\ Done(c)
         /\ path[c] \in DOMAIN fs
         /\ path[c] \notin host.create_targets
         /\ SplitExt(path[c]) \in {ExtYaml, ExtYml}
         /\ fs[path[c]].wf /\ fs[path[c]].data # <<>>)
            => /\ result[c].some
               /\ LineKeys(result[c].body) = FirstAppearances(LineKeys(fs[path[c]].data))

\* C8: of reader calls running concurrently on a filesystem that nothing
\* else touches, none ends by raising, and under every interleaving each one
\* that has ended has returned what the function returns when run alone on
\* its own path.
C8_NoInterference ==
    \A c \in Calls :
        /\ pc[c] # "raised"
        /\ Done(c) => result[c] = ReadTextFromFile(fs, path[c], yaml_installed)

\* Every call has ended, on pairwise distinct existing files, two of them of
\* different formats.
C8_Witness ==
    /\ \A c \in Calls : Done(c) /\ path[c] \in DOMAIN fs
    /\ \A c1, c2 \in Calls : c1 # c2 => path[c1] # path[c2]
    /\ \E c1, c2 \in Calls :
          /\ result[c1].some /\ result[c2].some
          /\ Branch(SplitExt(path[c1])) # Branch(SplitExt(path[c2]))

\* C9: no step of read_text_from_file changes the filesystem: the set of
\* existing paths and every entry are after the step what they were before.
C9_ReadOnly == [][pc' # pc => fs' = fs]_vars

\* A call has opened a file that holds something, returned its text and
\* ended.
C9_Witness ==
    \E c \in Calls :
        /\ Done(c)
        /\ opened[c]
        /\ result[c].some
        /\ fs[path[c]].data # <<>>

\* C10: a batch call never raises; the single-file calls it has made are,
\* in list order, one per source, each to dst_dir joined with the base name
\* of its source; and once it has returned, its list has one boolean per
\* source, the i-th being whether the i-th copy or move went through.
C10_BatchResults ==
    /\ batch.pc # "raised"
    /\ batch.pc \in {"loop", "returned"} =>
          /\ Len(calls) = Len(batch.results)
          /\ Len(calls) <= Len(batch.src_paths)
          /\ \A i \in 1..Len(calls) :
                calls[i] = [fn |-> batch.op,
                            src |-> batch.src_paths[i],
                            dst |-> Join(batch.dst_dir, Basename(batch.src_paths[i])),
                            went |-> batch.results[i]]
    /\ batch.pc = "returned" =>
          /\ Len(batch.returned) = Len(batch.src_paths)
          /\ batch.returned = batch.results

\* A batch call has returned after a source that failed was followed by one
\* that succeeded.
C10_Witness ==
    /\ batch.pc = "returned"
    /\ \E i, j \in 1..Len(batch.returned) :
          i < j /\ ~batch.returned[i] /\ batch.returned[j]

====
